---- MODULE Spec2Model ----
(***************************************************************************)
(* Worker pool, autoscaler, metrics reporter, traversal producer and       *)
(* shutdown context of fileprocessor/main.go, as one state machine.        *)
(*                                                                         *)
(* Goroutines: main (at wg.Wait and after), the signal handler, the        *)
(* producer (filepath.Walk callback + deferred close), the workers, the    *)
(* metrics reporter and the worker autoscaler.  Workers are anonymous and  *)
(* interchangeable, so they are kept as a count per program position.      *)
(* A Go select with several ready cases picks any one of them.             *)
(***************************************************************************)
EXTENDS Integers, Sequences, FiniteSets, TLC

\* ---------------------------------------------------------------- constants
QueueCap == 100
HighWatermark == 50
LowWatermark == 10
maxWorkers == 20
minWorkers == 2
add == 2

\* ------------------------------------------------------------------- bounds
\* autoscaler ticks explored in one run (the ticker itself never stops)
MaxTicks == 1
\* entries of the small directory tree
SmallTree == 7
\* files the backlog tree holds beyond the high watermark
BacklogExtra == 3
\* files the large tree holds beyond the queue capacity
FullExtra == 2

\* ------------------------------------------------------------ the file tree
\* What filepath.Walk hands to the callback for entry i of the walk:
\* "dir" a directory (the root is the first entry), "err" an entry whose
\* lstat failed, "bad" a regular file that cannot be opened or read,
\* "good" a regular file that hashes.  Directories recur through the walk.
Kind(i) ==
    IF i \in {1, 5} \/ i % 53 = 0 THEN "dir"
    ELSE IF i = 3 THEN "err"
    ELSE IF i \in {2, 6} THEN "bad"
    ELSE "good"

IsFile(k) == k \in {"good", "bad"}

\* number of entries of kind k in the tree of n entries
CountKind(n, k) == Cardinality({i \in 1..n : Kind(i) = k})

\* entries of the smallest tree with f files
TreeOf(f) ==
    CHOOSE n \in 0..(2 * f + 6) :
        /\ CountKind(n, "good") + CountKind(n, "bad") = f
        /\ (n = 0 \/ IsFile(Kind(n)))

\* the paths of the regular files among the first k entries, in walk order
FilesUpTo(k) ==
    LET isFile(i) == IsFile(Kind(i))
    IN  SelectSeq([i \in 1..k |-> i], isFile)

Hashable(n) == CountKind(n, "good")
Unreadable(n) == CountKind(n, "bad")

\* the largest tree of any run, its regular files in walk order, the number
\* of regular files among the first k entries, and the number of the first
\* d files in walk order whose hash fails / succeeds
LargestTree == TreeOf(QueueCap + FullExtra)
WalkFiles == FilesUpTo(LargestTree)
FilesBefore == [k \in 0..LargestTree |-> Cardinality({i \in 1..k : IsFile(Kind(i))})]
BadAmongFirst ==
    [d \in 0..Len(WalkFiles) |-> Cardinality({j \in 1..d : Kind(WalkFiles[j]) = "bad"})]
GoodAmongFirst ==
    [d \in 0..Len(WalkFiles) |-> Cardinality({j \in 1..d : Kind(WalkFiles[j]) = "good"})]

\* -------------------------------------------------------------------- state
VARIABLES
    workers,        \* the -workers flag
    tree,           \* number of entries the walk will visit (entry i is a Kind(i))
    walkPos,        \* index of the entry the callback is called for next
    prodPc,         \* producer: "walk" | "done"
    jobs,           \* buffered content of the jobs channel (paths = entry indices)
    closed,         \* close(jobs) has run
    closes,         \* number of close(jobs) calls so far
    cancelled,      \* ctx.Done() is closed
    interrupted,    \* the signal handler goroutine has received a signal
    wk,             \* number of worker goroutines at each position
    wgCount,        \* counter of the sync.WaitGroup
    processed,      \* metrics.processed
    failed,         \* metrics.failed
    errors,         \* length of the errors slice
    errMu,          \* errMu is held
    dequeued,       \* jobs received from the channel so far
    asPc,           \* autoscaler: "run" | "done"
    activeWorkers,  \* autoscaler's tracked worker count
    workerID,       \* autoscaler's last worker id
    ticks,          \* autoscaler ticks taken so far
    reductions,     \* ticks on which the autoscaler applied its scale-down rule
    rpPc,           \* metrics reporter: "run" | "done"
    mainPc,         \* main: "wait" | "blocked" | "woken" | "summary" | "exit" | "panic"
    summary         \* what main printed: <<processed, failed, len(errors)>>

vars == <<workers, tree, walkPos, prodPc, jobs, closed, closes, cancelled,
          interrupted, wk, wgCount, processed, failed, errors, errMu, dequeued,
          asPc, activeWorkers, workerID, ticks, reductions, rpPc, mainPc, summary>>

prodVars == <<walkPos, prodPc, closed, closes>>
workerVars == <<wk, wgCount, processed, failed, errors, errMu, dequeued>>
scalerVars == <<asPc, activeWorkers, workerID, ticks, reductions>>
mainVars == <<mainPc, summary>>
cfgVars == <<workers, tree>>

\* positions of a worker goroutine
WorkerPcs == {"select", "hashOk", "hashErr", "lock", "append", "done"}

NoSummary == <<-1, -1, -1>>

\* the process is running: main has neither returned nor panicked
Alive == mainPc \notin {"exit", "panic"}

\* worker goroutines that have been started and have not returned
Live == wk["select"] + wk["hashOk"] + wk["hashErr"] + wk["lock"] + wk["append"]

Started == Live + wk["done"]

Max(a, b) == IF a > b THEN a ELSE b

\* ----------------------------------------------------------------- startup
\* main up to wg.Wait: `n` workers started and registered, reporter,
\* autoscaler and producer started; the producer has been called back for
\* the first k entries of the tree of t entries (k = 0: it has not run yet) and no other
\* goroutine has taken a step.
InitAhead(n, t, k) ==
    /\ workers = n
    /\ tree = t
    /\ walkPos = k + 1
    /\ prodPc = "walk"
    /\ jobs = FilesUpTo(k)
    /\ closed = FALSE
    /\ closes = 0
    /\ cancelled = FALSE
    /\ interrupted = FALSE
    /\ wk = [p \in WorkerPcs |-> IF p = "select" THEN Max(n, 0) ELSE 0]
    /\ wgCount = Max(n, 0)
    /\ processed = 0
    /\ failed = 0
    /\ errors = 0
    /\ errMu = FALSE
    /\ dequeued = 0
    /\ asPc = "run"
    /\ activeWorkers = n
    /\ workerID = n
    /\ ticks = 0
    /\ reductions = 0
    /\ rpPc = "run"
    /\ mainPc = "wait"
    /\ summary = NoSummary

\* ------------------------------------------------------------ signal handler
SignalHandler ==
    /\ Alive
    /\ ~interrupted
    /\ interrupted' = TRUE
    /\ cancelled' = TRUE
    /\ UNCHANGED <<cfgVars, prodVars, jobs, workerVars, scalerVars, rpPc, mainVars>>

\* ------------------------------------------------------------------ producer
\* ProducerSkip without the info.IsDir() test: a directory path goes to the
\* select like a file path
ProducerSkipNoDirCheck ==
    /\ Alive
    /\ prodPc = "walk"
    /\ walkPos <= tree
    /\ ~IsFile(Kind(walkPos))
    /\ Kind(walkPos) = "dir" => Len(jobs) < QueueCap
    /\ jobs' = IF Kind(walkPos) = "dir" THEN Append(jobs, walkPos) ELSE jobs
    /\ walkPos' = walkPos + 1
    /\ UNCHANGED <<cfgVars, prodPc, closed, closes, cancelled, interrupted,
                   workerVars, scalerVars, rpPc, mainVars>>

\* callback: err != nil or info.IsDir() -> return nil
ProducerSkip ==
    /\ Alive
    /\ prodPc = "walk"
    /\ walkPos <= tree
    /\ ~IsFile(Kind(walkPos))
    /\ walkPos' = walkPos + 1
    /\ UNCHANGED <<cfgVars, prodPc, closed, closes, jobs, cancelled, interrupted,
                   workerVars, scalerVars, rpPc, mainVars>>

\* ProducerSend on a channel that never fills (the capacity is not honoured)
ProducerSendUnbounded ==
    /\ Alive
    /\ prodPc = "walk"
    /\ walkPos <= tree
    /\ IsFile(Kind(walkPos))
    /\ jobs' = Append(jobs, walkPos)
    /\ walkPos' = walkPos + 1
    /\ UNCHANGED <<cfgVars, prodPc, closed, closes, cancelled, interrupted,
                   workerVars, scalerVars, rpPc, mainVars>>

\* callback: select case jobs <- path
ProducerSend ==
    /\ Alive
    /\ prodPc = "walk"
    /\ walkPos <= tree
    /\ IsFile(Kind(walkPos))
    /\ Len(jobs) < QueueCap
    /\ jobs' = Append(jobs, walkPos)
    /\ walkPos' = walkPos + 1
    /\ UNCHANGED <<cfgVars, prodPc, closed, closes, cancelled, interrupted,
                   workerVars, scalerVars, rpPc, mainVars>>

\* close(jobs), deferred in the producer goroutine
CloseJobs ==
    /\ closed' = TRUE
    /\ closes' = closes + 1

\* ProducerAbort whose callback closes jobs itself on cancellation, before
\* the deferred close runs
ProducerAbortClosesTwice ==
    /\ Alive
    /\ prodPc = "walk"
    /\ walkPos <= tree
    /\ IsFile(Kind(walkPos))
    /\ cancelled
    /\ prodPc' = "done"
    /\ closed' = TRUE
    /\ closes' = closes + 2
    /\ UNCHANGED <<cfgVars, walkPos, jobs, cancelled, interrupted,
                   workerVars, scalerVars, rpPc, mainVars>>

\* callback: select case <-ctx.Done(): return ctx.Err(); Walk returns it,
\* the goroutine returns and the deferred close runs
ProducerAbort ==
    /\ Alive
    /\ prodPc = "walk"
    /\ walkPos <= tree
    /\ IsFile(Kind(walkPos))
    /\ cancelled
    /\ prodPc' = "done"
    /\ CloseJobs
    /\ UNCHANGED <<cfgVars, walkPos, jobs, cancelled, interrupted,
                   workerVars, scalerVars, rpPc, mainVars>>

\* ProducerFinish with an explicit close(jobs) after Walk besides the deferred one
ProducerFinishDoubleClose ==
    /\ Alive
    /\ prodPc = "walk"
    /\ walkPos > tree
    /\ prodPc' = "done"
    /\ closed' = TRUE
    /\ closes' = closes + 2
    /\ UNCHANGED <<cfgVars, walkPos, jobs, cancelled, interrupted,
                   workerVars, scalerVars, rpPc, mainVars>>

\* Walk has visited every entry: the goroutine returns, the deferred close runs
ProducerFinish ==
    /\ Alive
    /\ prodPc = "walk"
    /\ walkPos > tree
    /\ prodPc' = "done"
    /\ CloseJobs
    /\ UNCHANGED <<cfgVars, walkPos, jobs, cancelled, interrupted,
                   workerVars, scalerVars, rpPc, mainVars>>

\* ------------------------------------------------------------------- workers
Move(from, to) ==
    [wk EXCEPT ![from] = @ - 1, ![to] = @ + 1]

\* wg.Done(): the counter drops; reaching zero releases main if it waits
WgDone ==
    /\ wgCount' = wgCount - 1
    /\ mainPc' = IF wgCount = 1 /\ mainPc = "blocked" THEN "woken" ELSE mainPc

\* select case path, ok := <-jobs with ok: a buffered job is received
WorkerRecv ==
    /\ Alive
    /\ wk["select"] > 0
    /\ Len(jobs) > 0
    /\ jobs' = Tail(jobs)
    /\ dequeued' = dequeued + 1
    /\ wk' = Move("select", IF Kind(Head(jobs)) = "good" THEN "hashOk" ELSE "hashErr")
    /\ UNCHANGED <<cfgVars, prodVars, cancelled, interrupted, wgCount, processed,
                   failed, errors, errMu, scalerVars, rpPc, mainVars>>

\* select case path, ok := <-jobs with !ok: closed and drained, return
WorkerClosed ==
    /\ Alive
    /\ wk["select"] > 0
    /\ closed
    /\ Len(jobs) = 0
    /\ wk' = Move("select", "done")
    /\ WgDone
    /\ UNCHANGED <<cfgVars, prodVars, jobs, cancelled, interrupted, processed,
                   failed, errors, errMu, dequeued, scalerVars, rpPc, summary>>

\* WorkerCancelled that counts the cancellation as a failed job
WorkerCancelledCountsFailure ==
    /\ Alive
    /\ wk["select"] > 0
    /\ cancelled
    /\ failed' = failed + 1
    /\ wk' = Move("select", "done")
    /\ WgDone
    /\ UNCHANGED <<cfgVars, prodVars, jobs, cancelled, interrupted, processed,
                   errors, errMu, dequeued, scalerVars, rpPc, summary>>

\* select case <-ctx.Done(): return
WorkerCancelled ==
    /\ Alive
    /\ wk["select"] > 0
    /\ cancelled
    /\ wk' = Move("select", "done")
    /\ WgDone
    /\ UNCHANGED <<cfgVars, prodVars, jobs, cancelled, interrupted, processed,
                   failed, errors, errMu, dequeued, scalerVars, rpPc, summary>>

\* processFile returned nil: atomic.AddInt64(&metrics.processed, 1)
WorkerProcessed ==
    /\ Alive
    /\ wk["hashOk"] > 0
    /\ processed' = processed + 1
    /\ wk' = Move("hashOk", "select")
    /\ UNCHANGED <<cfgVars, prodVars, jobs, cancelled, interrupted, wgCount,
                   failed, errors, errMu, dequeued, scalerVars, rpPc, mainVars>>

\* WorkerFailed that goes back to the loop right after counting: no record
\* is appended
WorkerFailedNoRecord ==
    /\ Alive
    /\ wk["hashErr"] > 0
    /\ failed' = failed + 1
    /\ wk' = Move("hashErr", "select")
    /\ UNCHANGED <<cfgVars, prodVars, jobs, cancelled, interrupted, wgCount,
                   processed, errors, errMu, dequeued, scalerVars, rpPc, mainVars>>

\* processFile returned an error: atomic.AddInt64(&metrics.failed, 1)
WorkerFailed ==
    /\ Alive
    /\ wk["hashErr"] > 0
    /\ failed' = failed + 1
    /\ wk' = Move("hashErr", "lock")
    /\ UNCHANGED <<cfgVars, prodVars, jobs, cancelled, interrupted, wgCount,
                   processed, errors, errMu, dequeued, scalerVars, rpPc, mainVars>>

\* WorkerLock that does not wait for the mutex: the append is unprotected
WorkerLockNoMutex ==
    /\ Alive
    /\ wk["lock"] > 0
    /\ errMu' = TRUE
    /\ wk' = Move("lock", "append")
    /\ UNCHANGED <<cfgVars, prodVars, jobs, cancelled, interrupted, wgCount,
                   processed, failed, errors, dequeued, scalerVars, rpPc, mainVars>>

\* errMu.Lock()
WorkerLock ==
    /\ Alive
    /\ wk["lock"] > 0
    /\ ~errMu
    /\ errMu' = TRUE
    /\ wk' = Move("lock", "append")
    /\ UNCHANGED <<cfgVars, prodVars, jobs, cancelled, interrupted, wgCount,
                   processed, failed, errors, dequeued, scalerVars, rpPc, mainVars>>

\* WorkerAppend without the `continue`: the failed job falls through to
\* atomic.AddInt64(&metrics.processed, 1)
WorkerAppendNoContinue ==
    /\ Alive
    /\ wk["append"] > 0
    /\ errors' = errors + 1
    /\ errMu' = FALSE
    /\ processed' = processed + 1
    /\ wk' = Move("append", "select")
    /\ UNCHANGED <<cfgVars, prodVars, jobs, cancelled, interrupted, wgCount,
                   failed, dequeued, scalerVars, rpPc, mainVars>>

\* *errors = append(*errors, err); errMu.Unlock(); continue
WorkerAppend ==
    /\ Alive
    /\ wk["append"] > 0
    /\ errors' = errors + 1
    /\ errMu' = FALSE
    /\ wk' = Move("append", "select")
    /\ UNCHANGED <<cfgVars, prodVars, jobs, cancelled, interrupted, wgCount,
                   processed, failed, dequeued, scalerVars, rpPc, mainVars>>

\* ---------------------------------------------------------- metrics reporter
\* case <-ticker.C: read the counters and len(jobs), print
ReporterTick ==
    /\ Alive
    /\ rpPc = "run"
    /\ UNCHANGED vars

\* case <-ctx.Done(): return
ReporterCancelled ==
    /\ Alive
    /\ rpPc = "run"
    /\ cancelled
    /\ rpPc' = "done"
    /\ UNCHANGED <<cfgVars, prodVars, jobs, cancelled, interrupted, workerVars,
                   scalerVars, mainVars>>

\* ---------------------------------------------------------------- autoscaler
\* the scale-up loop without its `activeWorkers < maxWorkers` condition
ScaleUpLoopNoCap(i, active) == add - i

\* the scale-up loop, `for i := 0; i < add && activeWorkers < maxWorkers; i++`:
\* the number of workers it spawns from iteration i on
RECURSIVE ScaleUpLoop(_, _)
ScaleUpLoop(i, active) ==
    IF i < add /\ active < maxWorkers
    THEN 1 + ScaleUpLoop(i + 1, active + 1)
    ELSE 0

\* ScaleUp with `queueLength >= 50`: a depth equal to the watermark spawns too
ScaleUpAtWatermark(q, active) ==
    IF q >= HighWatermark /\ active < maxWorkers
    THEN ScaleUpLoop(0, active)
    ELSE 0

\* the scale-up rule: the number of workers the tick spawns
ScaleUp(q, active) ==
    IF q > HighWatermark /\ active < maxWorkers
    THEN ScaleUpLoop(0, active)
    ELSE 0

\* ScaleDown mirroring the scale-up step: the tracked count drops by `add`
ScaleDownByTwo(q, active) ==
    IF q < LowWatermark /\ active > minWorkers
    THEN active - add
    ELSE active

\* ScaleDown with the comparison turned round: `queueLength > 10`
ScaleDownWrongSide(q, active) ==
    IF q > LowWatermark /\ active > minWorkers
    THEN active - 1
    ELSE active

\* the scale-down rule: the tracked count after it
ScaleDown(q, active) ==
    IF q < LowWatermark /\ active > minWorkers
    THEN active - 1
    ELSE active

\* AutoscalerTick whose scale-up loop lacks `activeWorkers++`: the spawned
\* workers are not tracked
AutoscalerTickUntracked ==
    /\ Alive
    /\ asPc = "run"
    /\ ticks < MaxTicks
    /\ LET q == Len(jobs)
           n == IF q > HighWatermark /\ activeWorkers < maxWorkers THEN add ELSE 0
       IN  /\ wgCount' = wgCount + n
           /\ workerID' = workerID + n
           /\ wk' = [wk EXCEPT !["select"] = @ + n]
           /\ activeWorkers' = ScaleDown(q, activeWorkers)
           /\ reductions' = reductions +
                  (IF ScaleDown(q, activeWorkers) # activeWorkers THEN 1 ELSE 0)
    /\ ticks' = ticks + 1
    /\ UNCHANGED <<cfgVars, prodVars, jobs, cancelled, interrupted, processed,
                   failed, errors, errMu, dequeued, asPc, rpPc, mainVars>>

\* case <-ticker.C: sample len(jobs), scale up, scale down (the tick body is one step)
AutoscalerTick ==
    /\ Alive
    /\ asPc = "run"
    /\ ticks < MaxTicks
    /\ LET q == Len(jobs)
           n == ScaleUp(q, activeWorkers)
       IN  /\ wgCount' = wgCount + n
           /\ workerID' = workerID + n
           /\ wk' = [wk EXCEPT !["select"] = @ + n]
           /\ activeWorkers' = ScaleDown(q, activeWorkers + n)
           /\ reductions' = reductions +
                  (IF ScaleDown(q, activeWorkers + n) # activeWorkers + n THEN 1 ELSE 0)
    /\ ticks' = ticks + 1
    /\ UNCHANGED <<cfgVars, prodVars, jobs, cancelled, interrupted, processed,
                   failed, errors, errMu, dequeued, asPc, rpPc, mainVars>>

\* case <-ctx.Done(): return
AutoscalerCancelled ==
    /\ Alive
    /\ asPc = "run"
    /\ cancelled
    /\ asPc' = "done"
    /\ UNCHANGED <<cfgVars, prodVars, jobs, cancelled, interrupted, workerVars,
                   activeWorkers, workerID, ticks, reductions, rpPc, mainVars>>

\* ---------------------------------------------------------------------- main
\* wg.Wait() is called: it returns at once on a zero counter, else main is
\* registered as the waiter
MainWait ==
    /\ mainPc = "wait"
    /\ mainPc' = IF wgCount = 0 THEN "summary" ELSE "blocked"
    /\ UNCHANGED <<cfgVars, prodVars, jobs, cancelled, interrupted, workerVars,
                   scalerVars, rpPc, summary>>

\* main runs again after the counter reached zero: Wait returns, or panics
\* ("WaitGroup is reused before previous Wait has returned") when an Add
\* has raised the counter in between
MainWake ==
    /\ mainPc = "woken"
    /\ mainPc' = IF wgCount = 0 THEN "summary" ELSE "panic"
    /\ UNCHANGED <<cfgVars, prodVars, jobs, cancelled, interrupted, workerVars,
                   scalerVars, rpPc, summary>>

\* the final summary is printed, main returns (deferred cancel), the
\* process exits
MainSummary ==
    /\ mainPc = "summary"
    /\ summary' = <<processed, failed, errors>>
    /\ mainPc' = "exit"
    /\ cancelled' = TRUE
    /\ UNCHANGED <<cfgVars, prodVars, jobs, interrupted, workerVars, scalerVars, rpPc>>

\* ------------------------------------------------------------- specification
Producer == ProducerSkip \/ ProducerSend \/ ProducerAbort \/ ProducerFinish
Worker ==
    \/ WorkerRecv \/ WorkerClosed \/ WorkerCancelled \/ WorkerProcessed
    \/ WorkerFailed \/ WorkerLock \/ WorkerAppend
Reporter == ReporterTick \/ ReporterCancelled
Autoscaler == AutoscalerTick \/ AutoscalerCancelled
Main == MainWait \/ MainWake \/ MainSummary

Next ==
    \/ SignalHandler
    \/ ProducerSkip
    \/ ProducerSend
    \/ ProducerAbort
    \/ ProducerFinish
    \/ WorkerRecv
    \/ WorkerClosed
    \/ WorkerCancelled
    \/ WorkerProcessed
    \/ WorkerFailed
    \/ WorkerLock
    \/ WorkerAppend
    \/ ReporterTick
    \/ ReporterCancelled
    \/ AutoscalerTick
    \/ AutoscalerCancelled
    \/ MainWait
    \/ MainWake
    \/ MainSummary

InitWith(n, t) == InitAhead(n, t, 0)

\* the producer has buffered exactly HighWatermark files of the backlog tree
InitBacklog(n) ==
    InitAhead(n, TreeOf(HighWatermark + BacklogExtra), TreeOf(HighWatermark))

\* the producer has filled the queue with the first QueueCap files of the large tree
InitFull(n) ==
    InitAhead(n, TreeOf(QueueCap + FullExtra), TreeOf(QueueCap))

\* Complete runs over the small tree for a few -workers values, and the runs
\* over the backlog tree in which the producer got ahead of the one worker.
Init ==
    \/ \E n \in {0, 1, 3} : InitWith(n, SmallTree)
    \/ InitBacklog(1)

Spec == Init /\ [][Next]_vars

\* The same runs without -workers=0: at least one worker is in the pool
\* when main reaches wg.Wait.
InitPool ==
    \/ \E n \in {1, 3} : InitWith(n, SmallTree)
    \/ InitBacklog(1)

SpecPool == InitPool /\ [][Next]_vars

\* The Go scheduler runs every runnable goroutine eventually; the interrupt
\* is the environment's and need never come.
Fairness ==
    /\ WF_vars(Producer)
    /\ WF_vars(Worker)
    /\ WF_vars(Reporter)
    /\ WF_vars(Autoscaler)
    /\ WF_vars(Main)

LiveSpec == Init /\ [][Next]_vars /\ Fairness

\* The runs in which the producer fills the queue.
SpecFull == InitFull(1) /\ [][Next]_vars

\* The autoscaler goroutine alone, from the states main and the producer can
\* leave it in: every -workers value around minWorkers and maxWorkers, and
\* every backlog around the watermarks.
ScaleWorkers == {-1, 0, 1, 2, 3, 4, 5, 18, 19, 20, 21}
ScaleDepths == {0, 5, 9, 10, 11, 49, 50, 51, 60, 99, 100}

InitScale ==
    \E n \in ScaleWorkers, d \in ScaleDepths :
        InitAhead(n, TreeOf(QueueCap + FullExtra), TreeOf(d))

NextScale == SignalHandler \/ AutoscalerTick \/ AutoscalerCancelled

SpecScale == InitScale /\ [][NextScale]_vars

\* --------------------------------------------------------------- properties
\* C1: in a run that is never interrupted, the processed and failed counts
\* main prints equal the numbers of hashable and unreadable files of the tree,
\* whatever the -workers value and the autoscaler's ticks.
C1_SummaryCountsEveryFile ==
    (mainPc = "exit" /\ ~interrupted) =>
        /\ summary[1] = Hashable(tree)
        /\ summary[2] = Unreadable(tree)

\* C2: a run that is never interrupted terminates in the order the program
\* intends: the producer finishes the walk and closes the queue, every worker
\* exits only on the closed and drained queue, wg.Wait returns and main prints
\* the summary; nothing blocks for ever before that.
C2_UncancelledRunDrainsAndTerminates ==
    /\ <>(interrupted \/ mainPc = "exit")
    /\ []((wk["done"] > 0 /\ ~cancelled) => (closed /\ Len(jobs) = 0))
    /\ []((mainPc = "exit" /\ ~interrupted) =>
            (prodPc = "done" /\ walkPos > tree /\ Len(jobs) = 0 /\ Live = 0))

\* C3: once the interrupt has cancelled the context, the run can only come to
\* rest with main having returned from wg.Wait and printed the summary.
C3_CancelledRunEndsInSummary ==
    (interrupted /\ ~ENABLED Next) => mainPc = "exit"

\* C4: the queue never holds more than its capacity; on a full queue the
\* producer's send is disabled (its only other step is to give up on
\* cancellation), and it is enabled again only by a worker's receive.
C4_QueueBounded ==
    /\ [](Len(jobs) <= QueueCap)
    /\ []((/\ Alive
            /\ Len(jobs) = QueueCap
            /\ prodPc = "walk"
            /\ walkPos <= tree
            /\ IsFile(Kind(walkPos))) =>
            (~ENABLED ProducerSend /\ ~ENABLED ProducerSkip
             /\ ~ENABLED ProducerFinish /\ (ENABLED ProducerAbort <=> cancelled)))
    /\ [][(Len(jobs) = QueueCap /\ Len(jobs') < QueueCap) =>
            (dequeued' = dequeued + 1 /\ jobs' = Tail(jobs))]_vars

\* the queue is full again after a receive, the next file waiting to be sent
C4_Witness ==
    /\ Alive
    /\ Len(jobs) = QueueCap
    /\ dequeued > 0
    /\ prodPc = "walk"
    /\ walkPos <= tree
    /\ IsFile(Kind(walkPos))

\* C5: no autoscaler step raises activeWorkers above maxWorkers and none
\* lowers it below minWorkers, whatever the -workers value.
C5_AutoscalerBounds ==
    [][/\ activeWorkers' > activeWorkers => activeWorkers' <= maxWorkers
       /\ activeWorkers' < activeWorkers => activeWorkers' >= minWorkers]_vars

\* a scale-up that the maxWorkers condition cut to a single worker
C5_Witness ==
    /\ workers = maxWorkers - 1
    /\ activeWorkers = maxWorkers
    /\ workerID = workers + 1
    /\ ticks = 1

\* C6: once main has returned from wg.Wait to print the summary, no worker
\* goroutine is started or still running.
C6_NoWorkerAfterWait ==
    mainPc = "summary" => Live = 0

C8_CountersBoundedMonotone ==
    /\ [](processed + failed <= dequeued)
    /\ [][processed' >= processed /\ failed' >= failed]_vars

\* both counters have moved and a received job is still uncounted
C8_Witness ==
    /\ processed > 0
    /\ failed > 0
    /\ processed + failed < dequeued

\* C9: after an interrupt main exits only when every worker, the producer,
\* the metrics reporter and the autoscaler have left their loops.
C9_ExitAfterAllComponents ==
    (interrupted /\ mainPc = "exit") =>
        /\ Live = 0
        /\ prodPc = "done"
        /\ rpPc = "done"
        /\ asPc = "done"

\* C10: once the context is cancelled no worker receives a further job.
C10_NoReceiveAfterCancel ==
    [][cancelled => dequeued' = dequeued]_vars

\* C11: once the context is cancelled the autoscaler takes no further tick:
\* it samples nothing, spawns no worker and leaves activeWorkers alone.
C11_NoTickAfterCancel ==
    [][cancelled =>
        (/\ ticks' = ticks
         /\ workerID' = workerID
         /\ activeWorkers' = activeWorkers
         /\ Started' = Started)]_vars

C13_ScaleUpStep ==
    [][/\ ticks' # ticks =>
            LET n == IF Len(jobs) > 50 /\ activeWorkers < 20
                     THEN (IF 20 - activeWorkers < 2 THEN 20 - activeWorkers ELSE 2)
                     ELSE 0
            IN  /\ Started' = Started + n
                /\ wk'["select"] = wk["select"] + n
                /\ wgCount' = wgCount + n
                /\ workerID' = workerID + n
                /\ n > 0 => activeWorkers' = activeWorkers + n
       /\ wgCount' = Live']_vars

C13_Witness ==
    /\ ticks = 1
    /\ workers = 5
    /\ Len(jobs) = 60
    /\ activeWorkers = 7
    /\ Live = 7
    /\ wgCount = 7

\* C14: a tick that samples a depth below 10 with activeWorkers above 2
\* lowers activeWorkers by exactly one and leaves the workers, the queue,
\* the counters, the error log and the wait group as they were.
C14_ScaleDownStep ==
    [][(ticks' # ticks /\ Len(jobs) < 10 /\ activeWorkers > 2) =>
            /\ activeWorkers' = activeWorkers - 1
            /\ UNCHANGED <<wk, jobs, closed, wgCount, processed, failed, errors,
                           errMu, dequeued, workerID>>]_vars

C14_Witness ==
    /\ ticks = 1
    /\ workers = 4
    /\ Len(jobs) = 5
    /\ activeWorkers = 3
    /\ Live = 4
    /\ wgCount = 4

\* C15: a tick either spawns one or two workers and applies no reduction, or
\* lowers activeWorkers by one and spawns none, or changes neither.
C15_OneRulePerTick ==
    [][ticks' # ticks =>
            LET spawned == Started' - Started
                lowered == activeWorkers + spawned - activeWorkers'
            IN  \/ spawned \in 1..2 /\ lowered = 0 /\ reductions' = reductions
                \/ spawned = 0 /\ lowered = 1 /\ reductions' = reductions + 1
                \/ spawned = 0 /\ lowered = 0 /\ reductions' = reductions]_vars

C15_Witness ==
    /\ ticks = 1
    /\ Len(jobs) = 51
    /\ workers = 19
    /\ Started = 20
    /\ activeWorkers = 20
    /\ reductions = 0

\* C16: a failed hash raises failed by one, leaves processed and the error
\* log alone and sends the worker to the mutex; the append adds one record
\* while the worker holds the mutex (and no other worker does), releases it
\* and returns the worker to its loop without touching processed or failed;
\* a successful hash raises processed by one, leaves failed and the error
\* log alone and returns the worker to its loop.
C16_HashOutcomeSteps ==
    [][/\ failed' # failed =>
            /\ failed' = failed + 1
            /\ wk' = Move("hashErr", "lock")
            /\ UNCHANGED <<processed, errors, errMu, wgCount, jobs>>
       /\ errors' # errors =>
            /\ errors' = errors + 1
            /\ errMu /\ ~errMu'
            /\ wk["append"] = 1
            /\ wk' = Move("append", "select")
            /\ UNCHANGED <<processed, failed, wgCount, jobs>>
       /\ processed' # processed =>
            /\ processed' = processed + 1
            /\ wk' = Move("hashOk", "select")
            /\ UNCHANGED <<failed, errors, errMu, wgCount, jobs>>
       /\ wk'["append"] = (IF errMu' THEN 1 ELSE 0)]_vars

C16_Witness ==
    /\ processed > 0
    /\ errors = 1
    /\ failed = 2
    /\ errMu
    /\ wk["append"] = 1
    /\ wk["select"] > 0

\* C17: failed counts exactly the received jobs whose hash returned an
\* error and processed exactly those whose hash succeeded, whatever
\* cancellations happened: a path the producer drops on cancellation is never
\* received, and a worker leaving on cancellation adds to neither counter
\* nor to the error log.
C17_CancellationIsNoFailure ==
    /\ dequeued <= FilesBefore[walkPos - 1]
    /\ failed + wk["hashErr"] = BadAmongFirst[dequeued]
    /\ processed + wk["hashOk"] = GoodAmongFirst[dequeued]
    /\ errors <= failed

C17_Witness ==
    /\ interrupted
    /\ prodPc = "done"
    /\ walkPos <= tree
    /\ wk["done"] > 0
    /\ Len(jobs) > 0
    /\ failed > 0
    /\ processed > 0

\* C18: the context never goes back from cancelled to running, and a cancel
\* on a cancelled context changes nothing but the caller's own position; the
\* components that left on cancellation stay gone; and jobs, once closed,
\* stays closed and is never closed again.
C18_CancelOnceCloseOnce ==
    [][/\ cancelled => cancelled'
       /\ interrupted => interrupted'
       /\ (cancelled /\ mainPc = "summary" /\ mainPc' = "exit") =>
              UNCHANGED <<cancelled, interrupted, prodVars, jobs, wk, wgCount,
                          processed, failed, errors, scalerVars, rpPc>>
       /\ asPc = "done" => asPc' = "done"
       /\ rpPc = "done" => rpPc' = "done"
       /\ prodPc = "done" => prodPc' = "done"
       /\ wk'["done"] >= wk["done"]
       /\ closed => (closed' /\ closes' = closes)
       /\ closes' <= 1]_vars

C18_Witness ==
    /\ interrupted
    /\ cancelled
    /\ mainPc = "exit"
    /\ prodPc = "done"
    /\ walkPos <= tree
    /\ closes = 1
    /\ asPc = "done"
    /\ rpPc = "done"

\* C19: the error log is never longer than failed; failed exceeds it by
\* exactly the number of workers that have counted a failure and not yet
\* appended its record; with no worker running the two are equal, and so are
\* the values main printed if no worker was running when it read them.
C19_ErrorLogTracksFailed ==
    /\ errors <= failed
    /\ failed - errors = wk["lock"] + wk["append"]
    /\ Live = 0 => errors = failed
    /\ (mainPc = "exit" /\ Live = 0) => summary[3] = summary[2]

C19_Witness ==
    /\ failed = 2
    /\ errors = 1
    /\ wk["lock"] = 1
    /\ wk["append"] = 0
    /\ ~errMu

\* C20: activeWorkers is the -workers value plus the workers the autoscaler
\* has spawned minus the reductions it has applied; it never exceeds the
\* number of workers ever started; and while jobs is open and the context
\* is not cancelled no worker has exited and at least activeWorkers workers
\* are live.
C20_TrackedCountAccounting ==
    LET spawned == Started - Max(workers, 0)
    IN  /\ workerID = workers + spawned
        /\ activeWorkers = workers + spawned - reductions
        /\ activeWorkers <= Started
        /\ (~closed /\ ~cancelled) => (wk["done"] = 0 /\ Live >= activeWorkers)

C20_Witness ==
    /\ ticks = 1
    /\ workers = 1
    /\ Started = 3
    /\ activeWorkers = 3
    /\ reductions = 0
    /\ wk["done"] = 0
    /\ dequeued > 0
    /\ ~closed
    /\ ~cancelled
====
